---- MODULE Spec2Model ----
(***************************************************************************)
(* A model of three parts of linutil:                                      *)
(*   - tui/src/confirmation.rs : the confirmation dialog (ConfirmPrompt)   *)
(*   - build.rs                : the build-time script flattening          *)
(*   - src/systeminfo/mod.rs   : the os-release probe and the              *)
(*                               distro -> package manager table           *)
(* Texts (file contents, lines, paths, os-release values) are sequences    *)
(* of one-character strings, so that splitting, prefix tests, trimming     *)
(* and lower-casing are computed character by character as the code does.  *)
(***************************************************************************)
EXTENDS Integers, Sequences, FiniteSets, TLC

VARIABLES
    \* ---- ConfirmPrompt (tui/src/confirmation.rs)
    raw,            \* the &[&str] handed to ConfirmPrompt::new
    names,          \* ConfirmPrompt.names
    scroll,         \* ConfirmPrompt.scroll
    overflowChecks, \* build profile: TRUE = overflow checks on (debug)
    panicked,       \* the dialog's thread panicked
    lastKey,        \* key.code of the last handle_key_event call
    lastEvent,      \* what that call returned
    body,           \* the list handed to the frame by the last draw
    drawn,          \* TRUE iff no key was handled since the last draw
    \* ---- build.rs
    fs,             \* the source tree: path -> entry (file, dir or nothing)
    dirOrder,       \* the order in which read_dir yields the entries
    file_list,      \* main's file_list, the Vec handed to replace_source
    idx,            \* position of replace_source's for loop in file_list
    bpc,            \* where the build script is
    out,            \* the destination tree: created output path -> bytes
    \* ---- src/systeminfo/mod.rs
    osRelease,      \* /etc/os-release: whether it exists, and its text
    pmKnown,        \* the names packagemanagers::get has an entry for
    os_info,        \* what get_os_info returned to get_distribution
    sys,            \* the System that System::info built
    pmCall          \* the last direct call of get_package_manager

dialogVars == <<raw, names, scroll, overflowChecks, panicked, lastKey, lastEvent, body, drawn>>

buildVars == <<fs, dirOrder, file_list, idx, bpc, out>>

probeVars == <<osRelease, pmKnown, os_info, sys, pmCall>>

vars == <<dialogVars, buildVars, probeVars>>

-----------------------------------------------------------------------------
(* Bounds *)

\* longest selection list handed to ConfirmPrompt::new
MaxNames == 3

\* cap on the scroll counter (it is unbounded only when len - 1 wraps)
MaxScroll == 4

\* width of usize in the model; the real width (64) exceeds TLC's integers
UsizeBits == 16

\* most lines of an os-release file
MaxOsLines == 2

RawNames == {"a", "b", "c"}

-----------------------------------------------------------------------------
(* Generic helpers *)

Range(s) == {s[i] : i \in DOMAIN s}

SeqsUpTo(S, n) == UNION {[1..k -> S] : k \in 0..n}

UsizeModulus == 2 ^ UsizeBits

\* a - b on usize without overflow checks
WrappingSub(a, b) == (a - b) % UsizeModulus

-----------------------------------------------------------------------------
(* ConfirmPrompt *)

\* format!("{n}. {name}")
FormatLabel(n, name) == ToString(n) \o ". " \o name

\* names.iter().zip(1..).map(..).collect()
new(ns) == [i \in 1..Len(ns) |-> FormatLabel(i, ns[i])]

\* the key codes the model feeds to the dialog
KeyCodes == {"y", "Y", "n", "N", "Esc", "j", "k", "q", "Enter"}

\* ConfirmPrompt::scroll_down: whether it panics, and the new value of scroll
scroll_down(s, len, checks) ==
    IF len = 0 /\ checks
    THEN [panic |-> TRUE, scroll |-> s]     \* attempt to subtract with overflow
    ELSE [panic |-> FALSE,
          scroll |-> IF s < WrappingSub(len, 1) THEN s + 1 ELSE s]

\* ConfirmPrompt::scroll_up
scroll_up(s) == IF s > 0 THEN s - 1 ELSE s

\* skip one element too many
Skip_OneTooMany(s, n) ==
    [i \in 1..(IF Len(s) > n + 1 THEN Len(s) - n - 1 ELSE 0) |-> s[i + n + 1]]

\* names.iter().skip(scroll)
Skip(s, n) == [i \in 1..(IF Len(s) > n THEN Len(s) - n ELSE 0) |-> s[i + n]]

get_shortcut_list ==
    << [desc |-> "Continue",      keys |-> <<"Y", "y">>],
       [desc |-> "Abort",         keys |-> <<"N", "n">>],
       [desc |-> "Scroll up",     keys |-> <<"j">>],
       [desc |-> "Scroll down",   keys |-> <<"k">>],
       [desc |-> "Close linutil", keys |-> <<"CTRL-c", "q">>] >>

DialogStart ==
    /\ raw \in SeqsUpTo(RawNames, MaxNames)
    /\ names = new(raw)
    /\ scroll = 0
    /\ overflowChecks \in BOOLEAN
    /\ panicked = FALSE
    /\ lastKey = "none"
    /\ lastEvent = "none"
    /\ body = <<>>
    /\ drawn = FALSE

\* FloatContent::handle_key_event
handle_key_event(key) ==
    /\ ~panicked
    /\ scroll < MaxScroll
    /\ lastKey' = key
    /\ drawn' = FALSE
    /\ CASE key \in {"y", "Y"} ->
              /\ lastEvent' = "ConfirmSelection"
              /\ UNCHANGED <<scroll, panicked>>
         [] key \in {"n", "N", "Esc"} ->
              /\ lastEvent' = "AbortConfirmation"
              /\ UNCHANGED <<scroll, panicked>>
         [] key = "j" ->
              LET r == scroll_down(scroll, Len(names), overflowChecks) IN
              IF r.panic
              THEN /\ panicked' = TRUE
                   /\ lastEvent' = "panic"
                   /\ UNCHANGED scroll
              ELSE /\ scroll' = r.scroll
                   /\ lastEvent' = "None"
                   /\ UNCHANGED panicked
         [] key = "k" ->
              /\ scroll' = scroll_up(scroll)
              /\ lastEvent' = "None"
              /\ UNCHANGED panicked
         [] OTHER ->
              /\ lastEvent' = "None"
              /\ UNCHANGED <<scroll, panicked>>
    /\ UNCHANGED <<raw, names, overflowChecks, body>>
    /\ UNCHANGED <<buildVars, probeVars>>

\* FloatContent::draw
draw ==
    /\ ~panicked
    /\ body' = Skip(names, scroll)
    /\ drawn' = TRUE
    /\ UNCHANGED <<raw, names, scroll, overflowChecks, panicked, lastKey, lastEvent>>
    /\ UNCHANGED <<buildVars, probeVars>>

-----------------------------------------------------------------------------
(* Texts: sequences of one-character strings *)

StartsWith(t, prefix) ==
    Len(t) >= Len(prefix) /\ SubSeq(t, 1, Len(prefix)) = prefix

\* position of the first / last occurrence of character c in t, 0 if none
IndexOf(t, c) ==
    IF \E i \in DOMAIN t : t[i] = c
    THEN CHOOSE i \in DOMAIN t : t[i] = c /\ \A j \in 1..(i - 1) : t[j] # c
    ELSE 0

LastIndexOf(t, c) ==
    IF \E i \in DOMAIN t : t[i] = c
    THEN CHOOSE i \in DOMAIN t : t[i] = c /\ \A j \in (i + 1)..Len(t) : t[j] # c
    ELSE 0

\* str::split_once(c): <<found, before, after>>
split_once(t, c) ==
    LET i == IndexOf(t, c) IN
    IF i = 0 THEN <<FALSE, <<>>, <<>>>>
    ELSE <<TRUE, SubSeq(t, 1, i - 1), SubSeq(t, i + 1, Len(t))>>

\* a line without the "\r" that preceded its "\n"
StripCR(t) ==
    IF Len(t) > 0 /\ t[Len(t)] = "\r" THEN SubSeq(t, 1, Len(t) - 1) ELSE t

\* str::lines(): split after every "\n"; the terminator ("\n" or "\r\n") is
\* not part of the line, and a final line need not be terminated
RECURSIVE Lines(_)
Lines(t) ==
    IF t = <<>> THEN <<>>
    ELSE LET i == IndexOf(t, "\n") IN
         IF i = 0 THEN <<t>>
         ELSE <<StripCR(SubSeq(t, 1, i - 1))>> \o Lines(SubSeq(t, i + 1, Len(t)))

\* concatenate without the separator
RECURSIVE Join_Concat(_, _)
Join_Concat(ts, sep) ==
    IF ts = <<>> THEN <<>> ELSE ts[1] \o Join_Concat(Tail(ts), sep)

\* [String]::join(sep)
RECURSIVE Join(_, _)
Join(ts, sep) ==
    IF ts = <<>> THEN <<>>
    ELSE IF Len(ts) = 1 THEN ts[1]
    ELSE ts[1] \o sep \o Join(Tail(ts), sep)

-----------------------------------------------------------------------------
(* Paths *)

\* Path::parent
Parent(p) ==
    LET i == LastIndexOf(p, "/") IN
    IF i = 0 THEN <<>> ELSE SubSeq(p, 1, i - 1)

\* Path::file_name
FileName(p) == SubSeq(p, LastIndexOf(p, "/") + 1, Len(p))

\* Path::extension: <<present, extension>>
Extension(p) ==
    LET n == FileName(p)
        i == LastIndexOf(n, ".")
    IN  IF i <= 1 THEN <<FALSE, <<>>>>
        ELSE <<TRUE, SubSeq(n, i + 1, Len(n))>>

\* Path::join: an absolute right-hand side replaces the left-hand side
PathJoin(dir, rel) ==
    IF StartsWith(rel, <<"/">>) THEN rel
    ELSE IF dir = <<>> \/ dir[Len(dir)] = "/" THEN dir \o rel
    ELSE dir \o <<"/">> \o rel

-----------------------------------------------------------------------------
(* The source trees the build is run on *)

\* SCRIPT_PATH, written "r" in the model
SCRIPT_PATH == <<"r">>

P_a  == <<"r", "/", "a">>
P_b  == <<"r", "/", "b", ".", "s", "h">>
P_t  == <<"r", "/", "t", ".", "t", "x", "t">>
P_l  == <<"r", "/", "l">>
P_lc == <<"r", "/", "l", "/", "c", ".", "s", "h">>

AllPaths == {P_a, P_b, P_t, P_l, P_lc}

NL == <<"\n">>
Shebang == <<"#", "!">>
Dot == <<".", " ">>
Source == <<"s", "o", "u", "r", "c", "e", " ">>
X1 == <<"X", "=", "1">>
\* a byte that is not valid UTF-8
BadByte == "0xFF"

File(bytes) == [kind |-> "file", readable |-> TRUE, bytes |-> bytes]
Unreadable(bytes) == [kind |-> "file", readable |-> FALSE, bytes |-> bytes]
Dir(readable) == [kind |-> "dir", readable |-> readable, bytes |-> <<>>]
Nothing == [kind |-> "none", readable |-> FALSE, bytes |-> <<>>]

\* what r/a may hold
Choices_a ==
    { File(Shebang \o NL \o Source \o <<"l", "/", "c", ".", "s", "h">> \o NL \o <<"y">>),
      File(Shebang \o NL \o Dot \o <<"b", ".", "s", "h">> \o NL),
      File(Shebang \o NL \o <<"y">> \o NL \o Dot \o <<"z">>),
      File(Shebang \o NL \o <<BadByte>>),
      File(<<"#">>) }

\* what r/b.sh may hold
Choices_b ==
    { File(Shebang \o NL \o <<"y">> \o NL \o NL),
      File(Dot \o <<"b", ".", "s", "h">> \o NL \o X1),
      File(Shebang \o <<" ">> \o NL \o Source \o <<"a">> \o NL \o Dot \o <<"l", "/", "c", ".", "s", "h">>),
      Unreadable(Shebang),
      Nothing }

\* what r/l/c.sh may hold
Choices_lc ==
    { File(X1),
      File(X1 \o NL),
      File(Shebang \o NL \o Source \o <<"c", ".", "s", "h">>),
      File(Shebang \o <<"\r">> \o NL \o <<"y", "\r">> \o NL),
      Nothing }

Trees ==
    { [p \in AllPaths |->
         CASE p = P_a -> a
           [] p = P_b -> b
           [] p = P_lc -> c
           [] p = P_t -> File(Shebang \o NL \o <<"y">>)
           [] p = P_l -> Dir(lr)] :
      a \in Choices_a, b \in Choices_b, c \in Choices_lc, lr \in BOOLEAN }

\* the orders read_dir may yield entries in: the permutations of the paths
DirOrders ==
    { o \in [1..Cardinality(AllPaths) -> AllPaths] :
        \A i, j \in DOMAIN o : i # j => o[i] # o[j] }

-----------------------------------------------------------------------------
(* build.rs *)

Lookup(tree, p) == IF p \in DOMAIN tree THEN tree[p] ELSE Nothing

\* an unreadable file read as the empty text
read_to_string_OrEmpty(tree, p) ==
    LET e == Lookup(tree, p) IN
    IF e.kind = "file" /\ e.readable /\ BadByte \notin Range(e.bytes)
    THEN <<TRUE, e.bytes>>
    ELSE <<TRUE, <<>>>>

\* fs::read_to_string: <<ok, text>>
read_to_string(tree, p) ==
    LET e == Lookup(tree, p) IN
    IF e.kind = "file" /\ e.readable /\ BadByte \notin Range(e.bytes)
    THEN <<TRUE, e.bytes>>
    ELSE <<FALSE, <<>>>>

has_shell_ext(p) ==
    LET ext == Extension(p) IN
    IF ext[1] THEN ext[2] = <<"s", "h">> ELSE TRUE

\* test the first byte alone
starts_with_shebang_FirstByte(tree, p) ==
    LET e == Lookup(tree, p) IN
    /\ e.kind = "file" /\ e.readable
    /\ Len(e.bytes) >= 1
    /\ e.bytes[1] = "#"

starts_with_shebang(tree, p) ==
    LET e == Lookup(tree, p) IN
    /\ e.kind = "file" /\ e.readable        \* File::open
    /\ Len(e.bytes) >= 2                     \* read_exact
    /\ SubSeq(e.bytes, 1, 2) = <<"#", "!">>

\* the entries read_dir(dir) yields, in the order ord gives them
ReadDir(tree, ord, dir) ==
    SelectSeq(ord, LAMBDA p : Parent(p) = dir /\ Lookup(tree, p).kind # "none")

\* get_script_list: <<ok, list>>, ok FALSE when a read_dir().unwrap() panics
\* (SCRIPT_PATH itself is a readable directory in every tree of Trees)
RECURSIVE get_script_list(_, _, _)
RECURSIVE CollectEntries(_, _, _)
CollectEntries(tree, ord, entries) ==
    IF entries = <<>> THEN <<TRUE, <<>>>>
    ELSE LET p == Head(entries)
             here == IF Lookup(tree, p).kind = "dir"
                     THEN get_script_list(tree, ord, p)
                     ELSE IF has_shell_ext(p) /\ starts_with_shebang(tree, p)
                          THEN <<TRUE, <<p>>>>
                          ELSE <<TRUE, <<>>>>
             rest == CollectEntries(tree, ord, Tail(entries))
         IN  IF here[1] /\ rest[1] THEN <<TRUE, here[2] \o rest[2]>>
             ELSE <<FALSE, <<>>>>

get_script_list(tree, ord, dir) ==
    IF dir # SCRIPT_PATH /\ ~Lookup(tree, dir).readable
    THEN <<FALSE, <<>>>>
    ELSE CollectEntries(tree, ord, ReadDir(tree, ord, dir))

IsInclude(line) == StartsWith(line, <<".", " ">>) \/ StartsWith(line, Source)

\* leave include directives in place
MapLine_PassThrough(tree, filedir, line) == <<TRUE, line>>

\* the closure replace_source maps over the lines: <<ok, text>>
MapLine(tree, filedir, line) ==
    IF IsInclude(line)
    THEN LET sourced_file == PathJoin(filedir, split_once(line, " ")[3])
         IN  read_to_string(tree, sourced_file)
    ELSE <<TRUE, line>>

\* the new_file replace_source computes for one file: <<ok, text>>
NewFile(tree, file) ==
    LET contents == read_to_string(tree, file)
        filedir == Parent(file)
        ls == Lines(contents[2])
        mapped == [i \in DOMAIN ls |-> MapLine(tree, filedir, ls[i])]
    IN  IF contents[1] /\ \A i \in DOMAIN mapped : mapped[i][1]
        THEN <<TRUE, Join([i \in DOMAIN mapped |-> mapped[i][2]], NL)>>
        ELSE <<FALSE, <<>>>>

BuildInit ==
    /\ fs \in Trees
    /\ dirOrder \in DirOrders
    /\ file_list = <<>>
    /\ idx = 1
    /\ bpc = "main"
    /\ out = <<>>

\* main: get_script_list(Path::new(SCRIPT_PATH))
Collect ==
    /\ bpc = "main"
    /\ LET r == get_script_list(fs, dirOrder, SCRIPT_PATH) IN
       IF r[1]
       THEN /\ file_list' = r[2]
            /\ bpc' = IF r[2] = <<>> THEN "done" ELSE "create"
       ELSE /\ bpc' = "panicked"
            /\ UNCHANGED file_list
    /\ UNCHANGED <<fs, dirOrder, idx, out>>
    /\ UNCHANGED <<dialogVars, probeVars>>

\* create_out_file: File::create makes the file, empty
create_out_file ==
    /\ bpc = "create"
    /\ out' = [p \in DOMAIN out \cup {file_list[idx]} |->
                 IF p = file_list[idx] THEN <<>> ELSE out[p]]
    /\ bpc' = "flatten"
    /\ UNCHANGED <<fs, dirOrder, file_list, idx>>
    /\ UNCHANGED <<dialogVars, probeVars>>

\* the rest of one iteration of replace_source: read, map, join, write_all
FlattenAndWrite ==
    /\ bpc = "flatten"
    /\ LET r == NewFile(fs, file_list[idx]) IN
       IF r[1]
       THEN /\ out' = [out EXCEPT ![file_list[idx]] = r[2]]
            /\ idx' = idx + 1
            /\ bpc' = IF idx = Len(file_list) THEN "done" ELSE "create"
       ELSE /\ bpc' = "panicked"
            /\ UNCHANGED <<out, idx>>
    /\ UNCHANGED <<fs, dirOrder, file_list>>
    /\ UNCHANGED <<dialogVars, probeVars>>

-----------------------------------------------------------------------------
(* src/systeminfo/mod.rs *)

\* char::to_lowercase on the ASCII letters
LowerTable ==
    "A" :> "a" @@ "B" :> "b" @@ "C" :> "c" @@ "D" :> "d" @@ "E" :> "e" @@ "F" :> "f" @@ "G" :> "g" @@ "H" :> "h" @@ "I" :> "i" @@ "J" :> "j" @@ "K" :> "k" @@ "L" :> "l" @@ "M" :> "m" @@ "N" :> "n" @@ "O" :> "o" @@ "P" :> "p" @@ "Q" :> "q" @@ "R" :> "r" @@ "S" :> "s" @@ "T" :> "t" @@ "U" :> "u" @@ "V" :> "v" @@ "W" :> "w" @@ "X" :> "x" @@ "Y" :> "y" @@ "Z" :> "z"

\* str::to_lowercase
to_lowercase(t) ==
    [i \in DOMAIN t |-> IF t[i] \in DOMAIN LowerTable THEN LowerTable[t[i]] ELSE t[i]]

\* str::trim_matches(c): drops every leading and every trailing c
RECURSIVE trim_start_matches(_, _)
trim_start_matches(t, c) ==
    IF t # <<>> /\ Head(t) = c THEN trim_start_matches(Tail(t), c) ELSE t

RECURSIVE trim_end_matches(_, _)
trim_end_matches(t, c) ==
    IF t # <<>> /\ t[Len(t)] = c
    THEN trim_end_matches(SubSeq(t, 1, Len(t) - 1), c)
    ELSE t

\* drop one leading and one trailing c at most
trim_matches_Once(t, c) ==
    LET a == IF t # <<>> /\ Head(t) = c THEN Tail(t) ELSE t IN
    IF a # <<>> /\ a[Len(a)] = c THEN SubSeq(a, 1, Len(a) - 1) ELSE a

trim_matches(t, c) == trim_end_matches(trim_start_matches(t, c), c)

\* the closure of get_os_info's filter_map: <<some, key, value>>
ParseLine(line) ==
    LET sp == split_once(line, "=") IN
    IF sp[1] THEN <<TRUE, to_lowercase(sp[2]), trim_matches(sp[3], "\"")>>
    ELSE <<FALSE, <<>>, <<>>>>

\* collect() into a HashMap: a later entry replaces an earlier one of the same key
RECURSIVE CollectMap(_, _)
CollectMap(ls, map) ==
    IF ls = <<>> THEN map
    ELSE LET e == ParseLine(Head(ls)) IN
         CollectMap(Tail(ls),
                    IF e[1]
                    THEN [k \in DOMAIN map \cup {e[2]} |->
                            IF k = e[2] THEN e[3] ELSE map[k]]
                    ELSE map)

\* get_os_info, on the text of /etc/os-release
get_os_info(contents) == CollectMap(Lines(contents), <<>>)

Unknown == <<"u", "n", "k", "n", "o", "w", "n">>

\* HashMap::remove(key).unwrap_or("unknown".into())
RemoveOrUnknown(map, key) == IF key \in DOMAIN map THEN map[key] ELSE Unknown

\* get_distribution: <<id, pretty_name>>
get_distribution(contents) ==
    LET info == get_os_info(contents) IN
    <<RemoveOrUnknown(info, <<"i", "d">>), RemoveOrUnknown(info, <<"p", "r", "e", "t", "t", "y", "_", "n", "a", "m", "e">>)>>

package_managers ==
    << <<<<"f", "e", "d", "o", "r", "a">>, "dnf">>,
       <<<<"d", "e", "b", "i", "a", "n">>, "apt-get">>,
       <<<<"a", "r", "c", "h">>, "pacman">>,
       <<<<"o", "p", "e", "n", "s", "u", "s", "e">>, "zypper">> >>

None == [some |-> FALSE, value |-> ""]
Some(v) == [some |-> TRUE, value |-> v]

\* compare the keys without regard to case
get_package_manager_AnyCase(distro) ==
    LET hits == SelectSeq(package_managers, LAMBDA kv : kv[1] = to_lowercase(distro)) IN
    IF hits = <<>> THEN None ELSE Some(Head(hits)[2])

\* get_package_manager: find the first pair whose key is distro
get_package_manager(distro) ==
    LET hits == SelectSeq(package_managers, LAMBDA kv : kv[1] = distro) IN
    IF hits = <<>> THEN None ELSE Some(Head(hits)[2])

\* packagemanagers::get
packagemanagers_get(known, name) == IF name \in known THEN Some(name) ELSE None

\* Option::and_then
and_then(opt, known) == IF opt.some THEN packagemanagers_get(known, opt.value) ELSE None

\* the lines an os-release file is made of in the model
OsLines ==
    { <<"I", "D", "=", "d", "e", "b", "i", "a", "n">>,
      <<"I", "D", "=", "\"", "f", "e", "d", "o", "r", "a", "\"">>,
      <<"I", "d", "=", "a", "r", "c", "h">>,
      <<"i", "d", "=", "D", "e", "b", "i", "a", "n">>,
      <<"P", "R", "E", "T", "T", "Y", "_", "N", "A", "M", "E", "=", "\"", "U", "b", "u", "n", "t", "u", " ", "2", "2", ".", "0", "4", "\"">>,
      <<"P", "R", "E", "T", "T", "Y", "_", "N", "A", "M", "E", "=", "\"", "\"", "x", "\"", "\"">>,
      <<"P", "R", "E", "T", "T", "Y", "_", "N", "A", "M", "E", "=", "a", "=", "\"", "b", "\"">>,
      <<"I", "D", "=", "\"", "o", "p", "e", "n", "s", "u", "s", "e">>,
      <<"#", " ", "I", "D">>,
      <<>> }

\* the texts of /etc/os-release: up to MaxOsLines lines, each ended by "\n"
OsTexts ==
    { Join(ls, NL) \o (IF ls = <<>> THEN <<>> ELSE NL) : ls \in SeqsUpTo(OsLines, MaxOsLines) }

\* the ids get_package_manager is called with directly
DistroIds ==
    { <<"f", "e", "d", "o", "r", "a">>,
      <<"d", "e", "b", "i", "a", "n">>,
      <<"a", "r", "c", "h">>,
      <<"o", "p", "e", "n", "s", "u", "s", "e">>,
      <<"u", "n", "k", "n", "o", "w", "n">>,
      <<"u", "n", "k", "n", "o", "w", "n", "o", "s">>,
      <<"D", "e", "b", "i", "a", "n">>,
      <<>>,
      <<"u", "b", "u", "n", "t", "u">>,
      <<"a", "r", "c">> }

ManagerNames == {"dnf", "apt-get", "pacman", "zypper"}

NoSystem == [built |-> FALSE, id |-> <<>>, pretty_name |-> <<>>, package_manager |-> None]

ProbeInit ==
    /\ osRelease \in {[exists |-> TRUE, text |-> t] : t \in OsTexts}
                     \cup {[exists |-> FALSE, text |-> <<>>]}
    /\ pmKnown \in {ManagerNames, {}, {"apt-get", "pacman"}}
    /\ os_info = <<>>
    /\ sys = NoSystem
    /\ pmCall = [called |-> FALSE, distro |-> <<>>, result |-> None]

\* System::info; read_to_string("/etc/os-release").expect(..) panics when the
\* file is missing
SystemInfo ==
    /\ ~sys.built
    /\ osRelease.exists
    /\ LET d == get_distribution(osRelease.text) IN
       /\ os_info' = get_os_info(osRelease.text)
       /\ sys' = [built |-> TRUE, id |-> d[1], pretty_name |-> d[2],
                  package_manager |-> and_then(get_package_manager(d[1]), pmKnown)]
    /\ UNCHANGED <<osRelease, pmKnown, pmCall>>
    /\ UNCHANGED <<dialogVars, buildVars>>

\* a call get_package_manager(distro)
CallGetPackageManager ==
    /\ \E distro \in DistroIds :
          pmCall' = [called |-> TRUE, distro |-> distro,
                     result |-> get_package_manager(distro)]
    /\ UNCHANGED <<osRelease, pmKnown, os_info, sys>>
    /\ UNCHANGED <<dialogVars, buildVars>>

-----------------------------------------------------------------------------
(* Specifications: one per program, the other programs idle *)

BuildIdle ==
    /\ fs = [p \in AllPaths |-> Nothing]
    /\ dirOrder = <<>>
    /\ file_list = <<>>
    /\ idx = 1
    /\ bpc = "idle"
    /\ out = <<>>

ProbeIdle ==
    /\ osRelease = [exists |-> FALSE, text |-> <<>>]
    /\ pmKnown = {}
    /\ os_info = <<>>
    /\ sys = NoSystem
    /\ pmCall = [called |-> FALSE, distro |-> <<>>, result |-> None]

DialogIdle ==
    /\ raw = <<>>
    /\ names = <<>>
    /\ scroll = 0
    /\ overflowChecks = FALSE
    /\ panicked = FALSE
    /\ lastKey = "none"
    /\ lastEvent = "none"
    /\ body = <<>>
    /\ drawn = FALSE

DialogInit == DialogStart /\ BuildIdle /\ ProbeIdle

HandleKey == \E key \in KeyCodes : handle_key_event(key)

DialogNext == HandleKey \/ draw

SpecDialog == DialogInit /\ [][DialogNext]_vars

InitBuild == BuildInit /\ DialogIdle /\ ProbeIdle

InitProbe == ProbeInit /\ DialogIdle /\ BuildIdle

BuildNext == Collect \/ create_out_file \/ FlattenAndWrite

SpecBuild == InitBuild /\ [][BuildNext]_vars

ProbeNext == SystemInfo \/ CallGetPackageManager

SpecProbe == InitProbe /\ [][ProbeNext]_vars


-----------------------------------------------------------------------------
(* Claims about ConfirmPrompt *)

\* C1: for a list of any length N the scroll offset stays clamped between 0
\* and N-1 (0 for the empty list, whose only offset is 0) after any sequence
\* of scroll keys, scroll_down at the bottom being a no-op and not a panic.
C1_ScrollWithinBounds ==
    /\ ~panicked
    /\ 0 <= scroll
    /\ scroll <= (IF Len(names) = 0 THEN 0 ELSE Len(names) - 1)

\* the outcome the key bindings give a key, whatever the state
OutcomeOfKey(key) ==
    CASE key \in {"y", "Y"} -> "ConfirmSelection"
      [] key \in {"n", "N", "Esc"} -> "AbortConfirmation"
      [] OTHER -> "None"

\* C2: in every state handle_key_event returns Confirm exactly for y/Y, Abort
\* exactly for n/N/Esc and None for every other key, j and k included; the
\* outcome depends on the key alone.
C2_OutcomeDependsOnKeyOnly ==
    lastKey # "none" => lastEvent = OutcomeOfKey(lastKey)

\* C3: the body drawn at offset s is the labels "k. n_k" for k = s+1 .. N in
\* the original order; right after construction s = 0 and the whole list is
\* shown; after one scroll-down on a, b, c the body starts at "2. b".
C3_BodyIsTailOfLabels ==
    /\ lastKey = "none" => scroll = 0
    /\ drawn =>
         /\ body = [i \in 1..(Len(raw) - scroll) |->
                      ToString(scroll + i) \o ". " \o raw[scroll + i]]
         /\ (raw = <<"a", "b", "c">> /\ scroll = 1) => body[1] = "2. b"
         /\ (lastKey = "none") => Len(body) = Len(raw)

C3_Witness ==
    /\ drawn
    /\ raw = <<"a", "b", "c">>
    /\ lastKey = "j"
    /\ scroll = 1
    /\ body = <<"2. b", "3. c">>

\* the effect the help text promises for a key listed under desc
DocumentedEffect(desc) ==
    CASE desc = "Continue" -> lastEvent' = "ConfirmSelection"
      [] desc = "Abort" -> lastEvent' = "AbortConfirmation"
      [] desc = "Scroll down" ->
           scroll' = (IF scroll < Len(names) - 1 THEN scroll + 1 ELSE scroll)
      [] desc = "Scroll up" ->
           scroll' = (IF scroll > 0 THEN scroll - 1 ELSE scroll)
      [] OTHER -> TRUE

\* C10: for every key the dialog implements, the action get_shortcut_list
\* documents for the key is the effect handle_key_event gives it (stated for
\* non-empty lists; the quit binding is listed but not implemented).
C10_HelpAgreesWithKeys ==
    [][\A i \in DOMAIN get_shortcut_list :
         \A key \in Range(get_shortcut_list[i].keys) \cap KeyCodes :
            (Len(names) >= 1 /\ get_shortcut_list[i].desc # "Close linutil"
               /\ handle_key_event(key))
              => DocumentedEffect(get_shortcut_list[i].desc)]_vars

-----------------------------------------------------------------------------
(* Claims about the build script *)

\* the output files whose write_all has completed
Written == {file_list[i] : i \in 1..(idx - 1)}

\* the lines of a text, split at "\n" alone
RECURSIVE SplitAtNewlines(_)
SplitAtNewlines(t) ==
    IF \A i \in DOMAIN t : t[i] # "\n" THEN <<t>>
    ELSE LET i == CHOOSE k \in DOMAIN t :
                     t[k] = "\n" /\ \A j \in 1..(k - 1) : t[j] # "\n"
         IN  <<SubSeq(t, 1, i - 1)>> \o SplitAtNewlines(SubSeq(t, i + 1, Len(t)))

BeginsWithDirective(line) ==
    \/ (Len(line) >= 2 /\ line[1] = "." /\ line[2] = " ")
    \/ (Len(line) >= 7 /\ SubSeq(line, 1, 7) = <<"s", "o", "u", "r", "c", "e", " ">>)

\* the path an include directive names: the rest of the line after the prefix
DirectiveTarget(file, line) ==
    LET rest == IF line[1] = "." THEN SubSeq(line, 3, Len(line))
                ELSE SubSeq(line, 8, Len(line))
    IN  IF rest # <<>> /\ rest[1] = "/" THEN rest
        ELSE Parent(file) \o <<"/">> \o rest

\* a file that can be read as text
CanRead(p) ==
    /\ p \in DOMAIN fs
    /\ fs[p].kind = "file"
    /\ fs[p].readable
    /\ \A i \in DOMAIN fs[p].bytes : fs[p].bytes[i] # BadByte

\* C4 as stated: no line of any output file begins with ". " or "source ".
C4_NoResidualDirective ==
    \A p \in DOMAIN out :
       \A l \in Range(SplitAtNewlines(out[p])) : ~BeginsWithDirective(l)

\* C4 as amended: every include directive of the candidate itself is replaced;
\* a line of a written output that begins with ". " or "source " is a line of
\* the raw contents of a file one of the candidate's directives includes.
C4_ResidualDirectivesComeFromIncludes ==
    \A p \in Written :
       \A l \in Range(SplitAtNewlines(out[p])) :
          BeginsWithDirective(l) =>
             \E cl \in Range(Lines(fs[p].bytes)) :
                /\ BeginsWithDirective(cl)
                /\ l \in Range(SplitAtNewlines(fs[DirectiveTarget(p, cl)].bytes))

C4_Witness ==
    /\ bpc = "done"
    /\ P_a \in Written
    /\ fs[P_a].bytes = Shebang \o NL \o Dot \o <<"b", ".", "s", "h">> \o NL
    /\ fs[P_b].bytes = Dot \o <<"b", ".", "s", "h">> \o NL \o X1
    /\ Dot \o <<"b", ".", "s", "h">> \in Range(SplitAtNewlines(out[P_a]))

\* the text that stands in the output for one line of the candidate
ExpectedSegment(file, line) ==
    IF BeginsWithDirective(line) THEN fs[DirectiveTarget(file, line)].bytes
    ELSE line

\* where the k-th segment starts in the output: after the earlier segments
\* and one newline for each of them
RECURSIVE SegmentStart(_, _)
SegmentStart(segs, k) ==
    IF k = 1 THEN 1 ELSE SegmentStart(segs, k - 1) + Len(segs[k - 1]) + 1

\* text is the candidate p flattened: its lines in order, a single newline
\* between consecutive ones, each directive replaced by its segment
IsFlattened(p, text) ==
    LET ls == Lines(fs[p].bytes)
        segs == [k \in DOMAIN ls |-> ExpectedSegment(p, ls[k])]
        n == Len(ls)
    IN  /\ n >= 1
        /\ Len(text) = SegmentStart(segs, n) + Len(segs[n]) - 1
        /\ \A k \in 1..n :
              /\ SubSeq(text, SegmentStart(segs, k),
                        SegmentStart(segs, k) + Len(segs[k]) - 1) = segs[k]
              /\ k < n => text[SegmentStart(segs, k) + Len(segs[k])] = "\n"

\* some read that processing file_list[idx] performs fails
SomeReadFails ==
    LET p == file_list[idx] IN
    \/ ~CanRead(p)
    \/ \E cl \in Range(Lines(fs[p].bytes)) :
          BeginsWithDirective(cl) /\ ~CanRead(DirectiveTarget(p, cl))

\* C5 as stated: when the build aborts, the destination tree holds no output
\* file at all for a script that was not completely flattened, and none of
\* the scripts processed before the failing one.
C5_NoPartialCatalog ==
    bpc = "panicked" => DOMAIN out = {}

\* C5 as amended: an unreadable candidate or include target aborts the build,
\* which then does nothing more; at the abort the destination tree holds the
\* flattened outputs of the scripts processed before the failing one and an
\* empty file for the failing script.
C5_AbortLeavesEarlierOutputs ==
    [][/\ bpc # "panicked"
       /\ (bpc = "flatten" /\ SomeReadFails) => bpc' = "panicked"
       /\ (bpc = "flatten" /\ bpc' = "panicked") =>
             /\ SomeReadFails
             /\ out' = out
             /\ DOMAIN out' = Written' \cup {file_list[idx]}
             /\ out'[file_list[idx]] = <<>>
             /\ \A p \in Written' : IsFlattened(p, out'[p])
      ]_vars

C5_Witness ==
    /\ bpc = "panicked"
    /\ idx = 2
    /\ DOMAIN out = {file_list[1], file_list[2]}
    /\ out[file_list[2]] = <<>>
    /\ out[file_list[1]] # <<>>

\* C6 as stated: every file the build has created under the destination root
\* has "#!" as its first two bytes, at every point of the run.
C6_CreatedFilesStartWithShebang ==
    \A p \in DOMAIN out : Len(out[p]) >= 2 /\ out[p][1] = "#" /\ out[p][2] = "!"

\* C6 as amended: every output file whose write has completed has "#!" as its
\* first two bytes; the file created for the candidate being processed, or for
\* the candidate whose processing failed, is empty.
C6_WrittenFilesStartWithShebang ==
    /\ \A p \in Written :
          p \in DOMAIN out /\ Len(out[p]) >= 2 /\ out[p][1] = "#" /\ out[p][2] = "!"
    /\ \A p \in DOMAIN out \ Written :
          bpc \in {"flatten", "panicked"} /\ p = file_list[idx] /\ out[p] = <<>>

C6_Witness ==
    /\ bpc = "panicked"
    /\ idx = 3
    /\ Cardinality(DOMAIN out) = 3
    /\ out[file_list[3]] = <<>>

\* C9: a written output is the candidate's lines in order, a single newline
\* between consecutive ones, each include directive replaced by the raw
\* contents of the file it names (not scanned again) and every other line
\* unchanged.
C9_FlattenedOutput ==
    \A p \in Written : IsFlattened(p, out[p])

C9_Witness ==
    /\ P_a \in Written
    /\ fs[P_lc].bytes = X1
    /\ out[P_a] = Shebang \o NL \o X1 \o NL \o <<"y">>
    /\ P_b \in Written
    /\ out[P_b] = Shebang \o <<" ">> \o NL \o fs[P_a].bytes \o NL \o X1

-----------------------------------------------------------------------------
(* Claims about the system probe *)

\* the lines of /etc/os-release that contain "="
OsEntryLines ==
    LET ls == SplitAtNewlines(osRelease.text) IN
    {i \in DOMAIN ls : "=" \in Range(ls[i])}

OsLine(i) == SplitAtNewlines(osRelease.text)[i]

FirstEq(line) == CHOOSE i \in DOMAIN line : line[i] = "=" /\ \A j \in 1..(i - 1) : line[j] # "="

\* the key a line is recorded under: the text before the first "=", lower-cased
KeyOf(line) ==
    [i \in 1..(FirstEq(line) - 1) |->
        IF line[i] \in DOMAIN LowerTable THEN LowerTable[line[i]] ELSE line[i]]

\* the text after the first "="
RawValueOf(line) == SubSeq(line, FirstEq(line) + 1, Len(line))

\* v without one layer of surrounding double quotes: one leading quote and
\* one trailing quote at most
StripOneLayer(v) ==
    LET from == IF Len(v) >= 1 /\ v[1] = "\"" THEN 2 ELSE 1
        to == IF Len(v) >= from /\ v[Len(v)] = "\"" THEN Len(v) - 1 ELSE Len(v)
    IN  SubSeq(v, from, to)

\* v without any of its leading and trailing double quotes
StripAllQuotes(v) ==
    LET inner == {i \in DOMAIN v : v[i] # "\""} IN
    IF inner = {} THEN <<>>
    ELSE SubSeq(v, CHOOSE i \in inner : \A j \in inner : i <= j,
                   CHOOSE i \in inner : \A j \in inner : i >= j)

\* line i is the last line of the file recorded under its key
LastOfItsKey(i) ==
    \A j \in OsEntryLines : j > i => KeyOf(OsLine(j)) # KeyOf(OsLine(i))

\* C7 as stated: every line containing "=" is recorded under the lower-cased
\* text before the first "=", with the text after the first "=" less at most
\* one layer of surrounding double quotes as its value.
C7_OneLayerOfQuotesStripped ==
    sys.built =>
       \A i \in OsEntryLines :
          /\ KeyOf(OsLine(i)) \in DOMAIN os_info
          /\ LastOfItsKey(i) =>
                os_info[KeyOf(OsLine(i))] = StripOneLayer(RawValueOf(OsLine(i)))

\* C7 as amended: every line containing "=" is recorded under the lower-cased
\* text before the first "=", and the value (of the last line with that key)
\* is the text after the first "=" less all its leading and trailing double
\* quotes; PRETTY_NAME="Ubuntu 22.04" yields pretty_name = Ubuntu 22.04.
C7_AllSurroundingQuotesStripped ==
    sys.built =>
       /\ \A i \in OsEntryLines :
             /\ KeyOf(OsLine(i)) \in DOMAIN os_info
             /\ LastOfItsKey(i) =>
                   os_info[KeyOf(OsLine(i))] = StripAllQuotes(RawValueOf(OsLine(i)))
       /\ \A k \in DOMAIN os_info : \E i \in OsEntryLines : KeyOf(OsLine(i)) = k
       /\ (\E i \in OsEntryLines :
              /\ LastOfItsKey(i)
              /\ OsLine(i) = <<"P", "R", "E", "T", "T", "Y", "_", "N", "A", "M", "E", "=", "\"", "U", "b", "u", "n", "t", "u", " ", "2", "2", ".", "0", "4", "\"">>)
            => sys.pretty_name = <<"U", "b", "u", "n", "t", "u", " ", "2", "2", ".", "0", "4">>

C7_Witness ==
    /\ sys.built
    /\ osRelease.text = <<"I", "D", "=", "\"", "f", "e", "d", "o", "r", "a", "\"">> \o NL \o <<"P", "R", "E", "T", "T", "Y", "_", "N", "A", "M", "E", "=", "\"", "\"", "x", "\"", "\"">> \o NL
    /\ os_info[<<"i", "d">>] = <<"f", "e", "d", "o", "r", "a">>
    /\ os_info[<<"p", "r", "e", "t", "t", "y", "_", "n", "a", "m", "e">>] = <<"x">>

\* the manager the table gives a distro id
TableManager(distro) ==
    CASE distro = <<"f", "e", "d", "o", "r", "a">> -> Some("dnf")
      [] distro = <<"d", "e", "b", "i", "a", "n">> -> Some("apt-get")
      [] distro = <<"a", "r", "c", "h">> -> Some("pacman")
      [] distro = <<"o", "p", "e", "n", "s", "u", "s", "e">> -> Some("zypper")
      [] OTHER -> None

\* C8: get_package_manager returns the table's manager when the id is exactly
\* one of the four keys and None otherwise; the System built by System::info
\* has no package manager when its id has no table entry, the fallback
\* "unknown" included.
C8_PackageManagerFromTable ==
    /\ pmCall.called => pmCall.result = TableManager(pmCall.distro)
    /\ sys.built =>
          /\ ~TableManager(sys.id).some => sys.package_manager = None
          /\ sys.package_manager.some => sys.package_manager = TableManager(sys.id)
          /\ <<"i", "d">> \notin DOMAIN os_info =>
                sys.id = <<"u", "n", "k", "n", "o", "w", "n">> /\ sys.package_manager = None

C8_Witness ==
    /\ sys.built
    /\ <<"i", "d">> \notin DOMAIN os_info
    /\ sys.id = <<"u", "n", "k", "n", "o", "w", "n">>
    /\ sys.package_manager = None
    /\ pmCall.called
    /\ pmCall.distro = <<"D", "e", "b", "i", "a", "n">>
    /\ pmCall.result = None

====
